---- MODULE Spec2Model ----
(***************************************************************************)
(* The step execution contract of metadata/ingestion/api/step.py:          *)
(* ReturnStep, StageStep, IterStep and BulkStep over one Status.           *)
(***************************************************************************)
EXTENDS Integers, Sequences, FiniteSets, TLC

\* Most results (and raises) the internal primitive (_run / _iter) produces over
\* the step's life, all invocations together.
MaxResults == 3
\* Most run() invocations made on one step.
MaxRuns == 2

(***************************************************************************)
(* Values                                                                  *)
(***************************************************************************)
\* Python's None and a present Optional value.
None == <<>>
Some(x) == <<x>>

\* Entities (opaque payloads) the internal primitives produce.
Entities == {"rec-1", "rec-2"}

\* StackTraceError(name, error, stack_trace).
StackTraceError(name, error, stack_trace) ==
    [name |-> name, error |-> error, stack_trace |-> stack_trace]

\* Failure records the internal primitives produce themselves.
SourceErrors ==
    { StackTraceError("ParseError", <<"bad row">>, "trace-1"),
      StackTraceError("Timeout", <<"no answer">>, "trace-2") }

\* Either(left, right): each side Optional.
Either(left, right) == [type |-> "Either", left |-> left, right |-> right]

Eithers ==
    { Either(l, r) : l \in {None} \cup {Some(f) : f \in SourceErrors},
                     r \in {None} \cup {Some(e) : e \in Entities} }

\* class WorkflowFatalError(Exception), and the exceptions a primitive raises.
WorkflowFatalError(msg) == [cls |-> "WorkflowFatalError", msg |-> msg]

UnexpectedError(msg) == [cls |-> "ValueError", msg |-> msg]

Exceptions ==
    { WorkflowFatalError("connection lost"), WorkflowFatalError("bad credentials"),
      UnexpectedError("boom") }

\* `except WorkflowFatalError as err` matches this exception.
IsFatal(exc) == exc.cls = "WorkflowFatalError"

\* One thing the internal primitive does when asked for its (next) result:
\* hand over an Either, hand over an object that is no Either, or raise.
Raise(exc) == [type |-> "Raise", exc |-> exc]

NotEither == [type |-> "NotEither"]

\* `result.left` on an object that has no such attribute.
AttributeError == [cls |-> "AttributeError", msg |-> "no attribute left"]

Results == Eithers \cup {NotEither}

Raises == { Raise(e) : e \in Exceptions }

RECURSIVE SeqsUpTo(_, _)
SeqsUpTo(S, n) ==
    IF n = 0 THEN { <<>> }
    ELSE LET shorter == SeqsUpTo(S, n - 1)
         IN  shorter \cup { Append(s, x) : s \in { t \in shorter : Len(t) = n - 1 }, x \in S }

\* What one call of an iterable primitive (_run of StageStep, _iter) produces:
\* results, then exhaustion or a raise.
Sources ==
    LET body == SeqsUpTo(Results, MaxResults)
    IN  body \cup { Append(s, r) : s \in { t \in body : Len(t) < MaxResults }, r \in Raises }

\* The sources of at most n results.
SourcesWithin == [n \in 0..MaxResults |-> { s \in Sources : Len(s) <= n }]

\* What one call of ReturnStep._run produces.
Units == { <<u>> : u \in Results \cup Raises }

Variants == {"ReturnStep", "StageStep", "IterStep", "BulkStep"}

(***************************************************************************)
(* State                                                                   *)
(***************************************************************************)
VARIABLES
    kind,      \* the variant of the step
    status,    \* self.status
    log,       \* what the logger received, in order
    pc,        \* where the step's run() is
    source,    \* what the internal primitive produces in the current invocation
    pos,       \* how much of source the wrapper has consumed
    ret,       \* the value the last completed run() returned
    emitted,   \* what the consumer pulled from the current generator, in order
    raised,    \* the exception that left the last call or pull, if any
    pre,       \* self.status when the current invocation began
    calls,     \* run() invocations so far
    produced   \* length of all the sources handed out so far

vars == <<kind, status, log, pc, source, pos, ret, emitted, raised, pre, calls, produced>>

(***************************************************************************)
(* Status                                                                  *)
(***************************************************************************)
\* Status()
NewStatus == [successCount |-> 0, failureCount |-> 0, failures |-> <<>>]

\* Status.failed(error)
failed(st, error) ==
    [st EXCEPT !.failureCount = @ + 1, !.failures = Append(@, error)]

\* Status.scanned(record)
scanned(st, record) == [st EXCEPT !.successCount = @ + 1]

\* logger.error / logger.warning
LogEntry(level, template, arg) == [level |-> level, msg |-> <<template, arg>>]

\* What a call leaves behind: the status, the log, the returned value and the
\* exception that escapes.
Outcome(st, lg, value, exc) == [status |-> st, log |-> lg, ret |-> value, raised |-> exc]

\* Step.__init__
Init ==
    /\ kind \in Variants
    /\ status = NewStatus
    /\ log = <<>>
    /\ pc = "idle"
    /\ source = <<>>
    /\ pos = 0
    /\ ret = None
    /\ emitted = <<>>
    /\ raised = None
    /\ pre = NewStatus
    /\ calls = 0
    /\ produced = 0

\* Step.get_status
get_status == status

(***************************************************************************)
(* ReturnStep                                                              *)
(***************************************************************************)
\* The except clauses of ReturnStep.run with `except Exception` written first.
ReturnStep_except_generic_first(st, lg, exc) ==
    Outcome(failed(st, StackTraceError("Unhandled",
                        <<"Unhandled exception during workflow processing", exc.msg>>,
                        exc.cls)),
            Append(lg, LogEntry("warning",
                        "Unhandled exception during workflow processing", exc.msg)),
            None, None)

\* The except clauses of ReturnStep.run with the failure recorded by the
\* handler and again by a finally block.
ReturnStep_except_twice(st, lg, exc) ==
    IF IsFatal(exc)
    THEN Outcome(st, Append(lg, LogEntry("error", "Fatal error running step", exc.msg)),
                 None, Some(exc))
    ELSE LET error == StackTraceError("Unhandled",
                          <<"Unhandled exception during workflow processing", exc.msg>>,
                          exc.cls)
         IN  Outcome(failed(failed(st, error), error),
                     Append(lg, LogEntry("warning",
                                "Unhandled exception during workflow processing", exc.msg)),
                     None, None)

\* The except clauses of ReturnStep.run.
ReturnStep_except(st, lg, exc) ==
    IF IsFatal(exc)
    THEN Outcome(st, Append(lg, LogEntry("error", "Fatal error running step", exc.msg)),
                 None, Some(exc))
    ELSE Outcome(failed(st, StackTraceError("Unhandled",
                                <<"Unhandled exception during workflow processing", exc.msg>>,
                                exc.cls)),
                 Append(lg, LogEntry("warning",
                                "Unhandled exception during workflow processing", exc.msg)),
                 None, None)

\* ReturnStep.run with the payload returned but never counted.
ReturnStep_run_uncounted(st, lg, unit) ==
    IF unit.type = "Raise" THEN ReturnStep_except(st, lg, unit.exc)
    ELSE IF unit.type = "NotEither" THEN ReturnStep_except(st, lg, AttributeError)
    ELSE IF unit.left # None THEN Outcome(failed(st, unit.left[1]), lg, None, None)
    ELSE IF unit.right # None THEN Outcome(st, lg, unit.right, None)
    ELSE Outcome(st, lg, None, None)

\* ReturnStep.run beginning with `self.status = Status()`.
ReturnStep_run_fresh(st, lg, unit) ==
    IF unit.type = "Raise" THEN ReturnStep_except(NewStatus, lg, unit.exc)
    ELSE IF unit.type = "NotEither" THEN ReturnStep_except(NewStatus, lg, AttributeError)
    ELSE IF unit.left # None THEN Outcome(failed(NewStatus, unit.left[1]), lg, None, None)
    ELSE IF unit.right # None
         THEN Outcome(scanned(NewStatus, unit.right[1]), lg, unit.right, None)
    ELSE Outcome(NewStatus, lg, None, None)

\* ReturnStep.run without the `return None` after status.failed: an Either
\* with both sides goes on to the right side.
ReturnStep_run_falls_through(st, lg, unit) ==
    IF unit.type = "Raise" THEN ReturnStep_except(st, lg, unit.exc)
    ELSE IF unit.type = "NotEither" THEN ReturnStep_except(st, lg, AttributeError)
    ELSE LET afterLeft == IF unit.left # None THEN failed(st, unit.left[1]) ELSE st
         IN  IF unit.right # None
             THEN Outcome(scanned(afterLeft, unit.right[1]), lg, unit.right, None)
             ELSE Outcome(afterLeft, lg, None, None)

\* ReturnStep.run, given what self._run does.
ReturnStep_run(st, lg, unit) ==
    IF unit.type = "Raise" THEN ReturnStep_except(st, lg, unit.exc)
    ELSE IF unit.type = "NotEither" THEN ReturnStep_except(st, lg, AttributeError)
    ELSE IF unit.left # None THEN Outcome(failed(st, unit.left[1]), lg, None, None)
    ELSE IF unit.right # None THEN Outcome(scanned(st, unit.right[1]), lg, unit.right, None)
    ELSE Outcome(st, lg, None, None)

ReturnStepRun ==
    /\ kind = "ReturnStep"
    /\ calls < MaxRuns
    /\ \E u \in Units :
          LET o == ReturnStep_run(status, log, u[1])
          IN  /\ source' = u
              /\ pos' = 1
              /\ status' = o.status
              /\ log' = o.log
              /\ ret' = o.ret
              /\ raised' = o.raised
              /\ pc' = IF o.raised = None THEN "returned" ELSE "raised"
    /\ pre' = status
    /\ calls' = calls + 1
    /\ UNCHANGED <<kind, emitted, produced>>

(***************************************************************************)
(* StageStep                                                               *)
(***************************************************************************)
\* The except clauses of StageStep.run with the unexpected error raised on
\* after it is recorded.
StageStep_except_reraise(st, lg, exc) ==
    IF IsFatal(exc)
    THEN Outcome(st, Append(lg, LogEntry("error", "Fatal error running step", exc.msg)),
                 None, Some(exc))
    ELSE Outcome(failed(st, StackTraceError("Unhandled",
                                <<"Unhandled exception during workflow processing", exc.msg>>,
                                exc.cls)),
                 Append(lg, LogEntry("warning",
                                "Unhandled exception during workflow processing", exc.msg)),
                 None, Some(exc))

\* The except clauses of StageStep.run with the unexpected error logged through
\* logger.error.
StageStep_except_as_error(st, lg, exc) ==
    IF IsFatal(exc)
    THEN Outcome(st, Append(lg, LogEntry("error", "Fatal error running step", exc.msg)),
                 None, Some(exc))
    ELSE Outcome(failed(st, StackTraceError("Unhandled",
                                <<"Unhandled exception during workflow processing", exc.msg>>,
                                exc.cls)),
                 Append(lg, LogEntry("error",
                                "Unhandled exception during workflow processing", exc.msg)),
                 None, None)

\* The except clauses of StageStep.run.
StageStep_except(st, lg, exc) ==
    IF IsFatal(exc)
    THEN Outcome(st, Append(lg, LogEntry("error", "Fatal error running step", exc.msg)),
                 None, Some(exc))
    ELSE Outcome(failed(st, StackTraceError("Unhandled",
                                <<"Unhandled exception during workflow processing", exc.msg>>,
                                exc.cls)),
                 Append(lg, LogEntry("warning",
                                "Unhandled exception during workflow processing", exc.msg)),
                 None, None)

\* The loop body of StageStep.run with the success side never counted.
StageStep_body_no_success(st, result) ==
    IF result.left # None THEN failed(st, result.left[1]) ELSE st

\* The loop body of StageStep.run with the newest failure put first in the list.
StageStep_body_newest_first(st, result) ==
    LET afterLeft == IF result.left # None
                     THEN [st EXCEPT !.failureCount = @ + 1,
                                     !.failures = <<result.left[1]>> \o @]
                     ELSE st
    IN  IF result.right # None THEN scanned(afterLeft, result.right[1]) ELSE afterLeft

\* The loop body of StageStep.run with `elif` for the right side.
StageStep_body_elif(st, result) ==
    IF result.left # None THEN failed(st, result.left[1])
    ELSE IF result.right # None THEN scanned(st, result.right[1])
    ELSE st

\* The body of the for loop of StageStep.run, for one Either.
StageStep_body(st, result) ==
    LET afterLeft == IF result.left # None THEN failed(st, result.left[1]) ELSE st
    IN  IF result.right # None THEN scanned(afterLeft, result.right[1]) ELSE afterLeft

\* run() is called: self._run(...) hands back its iterable.
StageStepRun ==
    /\ kind = "StageStep"
    /\ pc \in {"idle", "returned", "raised"}
    /\ calls < MaxRuns
    /\ source' \in SourcesWithin[MaxResults - produced]
    /\ produced' = produced + Len(source')
    /\ pos' = 0
    /\ pc' = "loop"
    /\ pre' = status
    /\ calls' = calls + 1
    /\ ret' = None
    /\ raised' = None
    /\ UNCHANGED <<kind, status, log, emitted>>

\* One turn of the for statement with the try written inside the loop: after
\* an unexpected error the loop goes on to the next result.
StageStepNext_try_inside ==
    /\ kind = "StageStep"
    /\ pc = "loop"
    /\ IF pos = Len(source)
       THEN /\ pc' = "returned"
            /\ UNCHANGED <<status, log, pos, raised>>
       ELSE LET result == source[pos + 1]
            IN  /\ pos' = pos + 1
                /\ IF result.type = "Either"
                   THEN /\ status' = StageStep_body(status, result)
                        /\ UNCHANGED <<log, pc, raised>>
                   ELSE LET o == StageStep_except(status, log,
                                     IF result.type = "Raise" THEN result.exc
                                     ELSE AttributeError)
                        IN  /\ status' = o.status
                            /\ log' = o.log
                            /\ raised' = o.raised
                            /\ pc' = IF o.raised # None THEN "raised"
                                     ELSE IF result.type = "Raise" THEN "returned"
                                     ELSE "loop"
    /\ UNCHANGED <<kind, source, ret, emitted, pre, calls, produced>>

\* One turn of the for statement: ask the iterable for its next result, then
\* the loop body, an except clause, or the end of run().
StageStepNext ==
    /\ kind = "StageStep"
    /\ pc = "loop"
    /\ IF pos = Len(source)
       THEN /\ pc' = "returned"
            /\ UNCHANGED <<status, log, pos, raised>>
       ELSE LET result == source[pos + 1]
            IN  /\ pos' = pos + 1
                /\ IF result.type = "Either"
                   THEN /\ status' = StageStep_body(status, result)
                        /\ UNCHANGED <<log, pc, raised>>
                   ELSE LET o == StageStep_except(status, log,
                                     IF result.type = "Raise" THEN result.exc
                                     ELSE AttributeError)
                        IN  /\ status' = o.status
                            /\ log' = o.log
                            /\ raised' = o.raised
                            /\ pc' = IF o.raised = None THEN "returned" ELSE "raised"
    /\ UNCHANGED <<kind, source, ret, emitted, pre, calls, produced>>

(***************************************************************************)
(* IterStep                                                                *)
(***************************************************************************)
\* What one resumption of the generator leaves behind: where it stopped,
\* what it yielded (nothing, or one Optional[Entity]) and what it raised.
Resumed(st, lg, p, at, yielded, exc) ==
    [status |-> st, log |-> lg, pos |-> p, pc |-> at, yielded |-> yielded, raised |-> exc]

\* The except clauses of IterStep.run with `except Exception` written first.
IterStep_except_generic_first(st, lg, p, exc) ==
    Resumed(failed(st, StackTraceError("Unhandled",
                        <<"Encountered exception running step", exc.msg>>,
                        exc.cls)),
            Append(lg, LogEntry("warning", "Encountered exception running step", exc.msg)),
            p, "done", None, None)

\* The except clauses of IterStep.run with the unexpected error raised on
\* after it is recorded.
IterStep_except_reraise(st, lg, p, exc) ==
    IF IsFatal(exc)
    THEN Resumed(st, Append(lg, LogEntry("error", "Fatal error running step", exc.msg)),
                 p, "done", None, Some(exc))
    ELSE Resumed(failed(st, StackTraceError("Unhandled",
                                <<"Encountered exception running step", exc.msg>>,
                                exc.cls)),
                 Append(lg, LogEntry("warning", "Encountered exception running step", exc.msg)),
                 p, "done", None, Some(exc))

\* The except clauses of IterStep.run: the generator is finished either way.
IterStep_except(st, lg, p, exc) ==
    IF IsFatal(exc)
    THEN Resumed(st, Append(lg, LogEntry("error", "Fatal error running step", exc.msg)),
                 p, "done", None, Some(exc))
    ELSE Resumed(failed(st, StackTraceError("Unhandled",
                                <<"Encountered exception running step", exc.msg>>,
                                exc.cls)),
                 Append(lg, LogEntry("warning", "Encountered exception running step", exc.msg)),
                 p, "done", None, None)

\* The for statement of IterStep.run with the try written inside the loop: an
\* error of the wrapper's own on one result is recorded and the loop goes on.
RECURSIVE IterStep_loop_try_inside(_, _, _, _)
IterStep_loop_try_inside(st, lg, src, p) ==
    IF p = Len(src) THEN Resumed(st, lg, p, "done", None, None)
    ELSE LET result == src[p + 1]
         IN  IF result.type = "Raise" THEN IterStep_except(st, lg, p + 1, result.exc)
             ELSE IF result.type = "NotEither"
                  THEN LET r == IterStep_except(st, lg, p + 1, AttributeError)
                       IN  IterStep_loop_try_inside(r.status, r.log, src, p + 1)
             ELSE IF result.left # None
                  THEN Resumed(failed(st, result.left[1]), lg, p + 1, "yieldLeft",
                               Some(None), None)
             ELSE IF result.right # None
                  THEN Resumed(scanned(st, result.right[1]), lg, p + 1, "yieldRight",
                               Some(result.right), None)
             ELSE IterStep_loop_try_inside(st, lg, src, p + 1)

\* The for statement of IterStep.run from the point where it asks self._iter()
\* for its next result, up to the next yield or the end of the generator.
RECURSIVE IterStep_loop(_, _, _, _)
IterStep_loop(st, lg, src, p) ==
    IF p = Len(src) THEN Resumed(st, lg, p, "done", None, None)
    ELSE LET result == src[p + 1]
         IN  IF result.type = "Raise" THEN IterStep_except(st, lg, p + 1, result.exc)
             ELSE IF result.type = "NotEither" THEN IterStep_except(st, lg, p + 1, AttributeError)
             ELSE IF result.left # None
                  THEN Resumed(failed(st, result.left[1]), lg, p + 1, "yieldLeft",
                               Some(None), None)
             ELSE IF result.right # None
                  THEN Resumed(scanned(st, result.right[1]), lg, p + 1, "yieldRight",
                               Some(result.right), None)
             ELSE IterStep_loop(st, lg, src, p + 1)

GeneratorStates == {"created", "yieldLeft", "yieldRight", "done"}

\* next() with the failure recorded but no placeholder yielded for it.
IterStep_next_no_placeholder(st, lg, src, p, at) ==
    LET r == IF at = "done" THEN Resumed(st, lg, p, "done", None, None)
             ELSE IF at = "yieldLeft" /\ src[p].right # None
                  THEN Resumed(scanned(st, src[p].right[1]), lg, p, "yieldRight",
                               Some(src[p].right), None)
             ELSE IterStep_loop(st, lg, src, p)
    IN  IF r.yielded = Some(None)
        THEN IF src[r.pos].right # None
             THEN Resumed(scanned(r.status, src[r.pos].right[1]), r.log, r.pos, "yieldRight",
                          Some(src[r.pos].right), None)
             ELSE IterStep_loop(r.status, r.log, src, r.pos)
        ELSE r

\* next() with the following result recorded before the consumer asks for it.
IterStep_next_ahead(st, lg, src, p, at) ==
    LET r == IF at = "done" THEN Resumed(st, lg, p, "done", None, None)
             ELSE IF at = "yieldLeft" /\ src[p].right # None
                  THEN Resumed(scanned(st, src[p].right[1]), lg, p, "yieldRight",
                               Some(src[p].right), None)
             ELSE IterStep_loop(st, lg, src, p)
    IN  IF r.pc # "done" /\ r.pos < Len(src) /\ src[r.pos + 1].type = "Either"
        THEN [r EXCEPT !.status = StageStep_body(@, src[r.pos + 1])]
        ELSE r

\* next() with the payload of an Either that has both sides yielded without
\* status.scanned.
IterStep_next_right_uncounted(st, lg, src, p, at) ==
    IF at = "done" THEN Resumed(st, lg, p, "done", None, None)
    ELSE IF at = "yieldLeft" /\ src[p].right # None
         THEN Resumed(st, lg, p, "yieldRight", Some(src[p].right), None)
    ELSE IterStep_loop(st, lg, src, p)

\* next() that calls self._iter() again once the sequence has ended.
IterStep_next_restart(st, lg, src, p, at) ==
    IF at = "done" THEN IterStep_loop(st, lg, src, 0)
    ELSE IF at = "yieldLeft" /\ src[p].right # None
         THEN Resumed(scanned(st, src[p].right[1]), lg, p, "yieldRight",
                      Some(src[p].right), None)
    ELSE IterStep_loop(st, lg, src, p)

\* One next() on the generator of IterStep.run, suspended at `at`.
IterStep_next(st, lg, src, p, at) ==
    IF at = "done" THEN Resumed(st, lg, p, "done", None, None)
    ELSE IF at = "yieldLeft" /\ src[p].right # None
         THEN Resumed(scanned(st, src[p].right[1]), lg, p, "yieldRight",
                      Some(src[p].right), None)
    ELSE IterStep_loop(st, lg, src, p)

\* run() is called: a generator object is made and none of its code runs.
\* A generator the consumer still held is dropped.
IterStepRun ==
    /\ kind = "IterStep"
    /\ pc \in {"idle"} \cup GeneratorStates
    /\ calls < MaxRuns
    /\ source' \in SourcesWithin[MaxResults - produced]
    /\ produced' = produced + Len(source')
    /\ pos' = 0
    /\ pc' = "created"
    /\ emitted' = <<>>
    /\ raised' = None
    /\ pre' = status
    /\ calls' = calls + 1
    /\ UNCHANGED <<kind, status, log, ret>>

\* The consumer pulls the next element.
IterStepNext ==
    /\ kind = "IterStep"
    /\ pc \in GeneratorStates
    /\ LET r == IterStep_next(status, log, source, pos, pc)
       IN  /\ status' = r.status
           /\ log' = r.log
           /\ pos' = r.pos
           /\ pc' = r.pc
           /\ emitted' = emitted \o r.yielded
           /\ raised' = r.raised
    /\ UNCHANGED <<kind, source, ret, pre, calls, produced>>

(***************************************************************************)
(* BulkStep                                                                *)
(***************************************************************************)
\* A concrete run(): it does its own bookkeeping, result by result, and stops
\* at the exception it raises, if any.
RECURSIVE ConcreteBulkRun(_, _, _)
ConcreteBulkRun(st, lg, body) ==
    IF body = <<>> THEN Outcome(st, lg, None, None)
    ELSE IF Head(body).type = "Raise" THEN Outcome(st, lg, None, Some(Head(body).exc))
    ELSE ConcreteBulkRun(StageStep_body(st, Head(body)), lg, Tail(body))

\* BulkStep.run inside the except clauses the other variants have.
BulkStep_run_wrapped(st, lg, body) ==
    LET o == ConcreteBulkRun(st, lg, body)
    IN  IF o.raised = None THEN o ELSE StageStep_except(o.status, o.log, o.raised[1])

\* BulkStep.run as the caller sees it: the class puts nothing around it.
BulkStep_run(st, lg, body) == ConcreteBulkRun(st, lg, body)

BulkBodies ==
    [n \in 0..MaxResults |->
        { s \in SourcesWithin[n] : \A i \in 1..Len(s) : s[i].type # "NotEither" }]

BulkStepRun ==
    /\ kind = "BulkStep"
    /\ calls < MaxRuns
    /\ \E b \in BulkBodies[MaxResults - produced] :
          LET o == BulkStep_run(status, log, b)
          IN  /\ source' = b
              /\ produced' = produced + Len(b)
              /\ pos' = Len(b)
              /\ status' = o.status
              /\ log' = o.log
              /\ ret' = o.ret
              /\ raised' = o.raised
              /\ pc' = IF o.raised = None THEN "returned" ELSE "raised"
    /\ pre' = status
    /\ calls' = calls + 1
    /\ UNCHANGED <<kind, emitted>>

Next ==
    \/ ReturnStepRun
    \/ StageStepRun
    \/ StageStepNext
    \/ IterStepRun
    \/ IterStepNext
    \/ BulkStepRun

Spec == Init /\ [][Next]_vars

(***************************************************************************)
(* Properties                                                              *)
(***************************************************************************)
\* A Payload envelope and a Failure envelope: exactly one side is set.
IsPayload(r) == r.type = "Either" /\ r.left = None /\ r.right # None

IsFailure(r) == r.type = "Either" /\ r.left # None /\ r.right = None

IsFatalRaise(r) == r.type = "Raise" /\ IsFatal(r.exc)

\* The primitive raised something other than the Fatal Signal, or the wrapper
\* hit an error of its own on what the primitive handed over.
IsUnexpected(r) == (r.type = "Raise" /\ ~IsFatal(r.exc)) \/ r.type = "NotEither"

AllProper(seq) == \A i \in 1..Len(seq) : IsPayload(seq[i]) \/ IsFailure(seq[i])

\* The failure records added since the current invocation began.
newFailures == SubSeq(status.failures, Len(pre.failures) + 1, Len(status.failures))

\* The bookkeeping a sequence of Eithers calls for, side by side and in order.
RECURSIVE Recorded(_, _)
Recorded(st, seq) ==
    IF seq = <<>> THEN st
    ELSE LET r == Head(seq)
             f == IF r.left # None
                  THEN [st EXCEPT !.failureCount = @ + 1, !.failures = Append(@, r.left[1])]
                  ELSE st
             g == IF r.right # None THEN [f EXCEPT !.successCount = @ + 1] ELSE f
         IN  Recorded(g, Tail(seq))

\* What the internal primitive of the last ReturnStep.run call did.
unit == source[1]

\* C1: ReturnStep.run on a Payload envelope carrying X returns X and counts one
\* success, leaving failureCount and failures alone; on a Failure envelope
\* carrying F it returns nothing, counts one failure, appends F and leaves
\* successCount alone.
C1_ReturnStepEnvelope ==
    (kind = "ReturnStep" /\ calls > 0) =>
        /\ IsPayload(unit) =>
              /\ pc = "returned" /\ raised = None
              /\ ret = unit.right
              /\ status.successCount = pre.successCount + 1
              /\ status.failureCount = pre.failureCount
              /\ status.failures = pre.failures
        /\ IsFailure(unit) =>
              /\ pc = "returned" /\ raised = None
              /\ ret = None
              /\ status.failureCount = pre.failureCount + 1
              /\ status.failures = Append(pre.failures, unit.left[1])
              /\ status.successCount = pre.successCount

\* A Failure envelope handled after a Payload envelope was.
C1_Witness ==
    /\ kind = "ReturnStep" /\ calls = 2
    /\ IsFailure(unit)
    /\ pre.successCount = 1
    /\ status.failureCount = 1

\* C2: ReturnStep.run, when the unit of work raises the Fatal Signal, raises
\* that same signal and leaves the Status as it was before the call.
C2_ReturnStepFatal ==
    (kind = "ReturnStep" /\ calls > 0 /\ IsFatalRaise(unit)) =>
        /\ pc = "raised"
        /\ raised = Some(unit.exc)
        /\ status = pre

\* The Fatal Signal raised on a step that has recorded something already.
C2_Witness ==
    /\ kind = "ReturnStep" /\ calls = 2
    /\ IsFatalRaise(unit)
    /\ raised = Some(WorkflowFatalError("connection lost"))
    /\ pre.failureCount = 1

\* C3: ReturnStep.run, when the unit of work raises an unexpected error,
\* returns nothing, lets no exception out, and appends exactly one record,
\* named "Unhandled" (failureCount + 1, successCount unchanged).
C3_ReturnStepUnhandled ==
    (kind = "ReturnStep" /\ calls > 0 /\ IsUnexpected(unit)) =>
        /\ pc = "returned" /\ raised = None
        /\ ret = None
        /\ Len(status.failures) = Len(pre.failures) + 1
        /\ SubSeq(status.failures, 1, Len(pre.failures)) = pre.failures
        /\ status.failures[Len(status.failures)].name = "Unhandled"
        /\ status.failureCount = pre.failureCount + 1
        /\ status.successCount = pre.successCount

\* An unexpected error raised after a Payload envelope was handled.
C3_Witness ==
    /\ kind = "ReturnStep" /\ calls = 2
    /\ unit = Raise(UnexpectedError("boom"))
    /\ pre.successCount = 1
    /\ status.failureCount = 1

\* C4: StageStep.run over n envelopes, k of them Failures and n - k Payloads,
\* with nothing raised: once run() is over failureCount has grown by k and
\* successCount by n - k, and run() returns nothing.
C4_StageStepCounts ==
    (kind = "StageStep" /\ pc = "returned" /\ AllProper(source)) =>
        LET k == Cardinality({ i \in 1..Len(source) : IsFailure(source[i]) })
        IN  /\ pos = Len(source)
            /\ status.failureCount = pre.failureCount + k
            /\ status.successCount = pre.successCount + (Len(source) - k)
            /\ Len(status.failures) = Len(pre.failures) + k
            /\ ret = None /\ raised = None

\* A second run over one Failure and one Payload, after a first that recorded.
C4_Witness ==
    /\ kind = "StageStep" /\ pc = "returned" /\ calls = 2
    /\ Len(source) = 2 /\ AllProper(source)
    /\ Cardinality({ i \in 1..Len(source) : IsFailure(source[i]) }) = 1
    /\ pre.failureCount = 1

\* C5: IterStep.run over n envelopes yields n elements in source order, and
\* element i is the empty placeholder iff envelope i is a Failure, and is
\* envelope i's payload otherwise.
C5_IterStepElements ==
    (kind = "IterStep" /\ pc \in GeneratorStates /\ AllProper(source)) =>
        /\ Len(emitted) = pos
        /\ pc = "done" => Len(emitted) = Len(source)
        /\ \A i \in 1..Len(emitted) :
              /\ emitted[i] = None <=> IsFailure(source[i])
              /\ IsPayload(source[i]) => emitted[i] = source[i].right

\* The sequence of [Payload, Failure, Payload] pulled to its end.
C5_Witness ==
    /\ kind = "IterStep" /\ pc = "done"
    /\ Len(source) = 3
    /\ IsPayload(source[1]) /\ IsFailure(source[2]) /\ IsPayload(source[3])
    /\ source[1].right # source[3].right
    /\ Len(emitted) = 3

\* The internal primitive raises the Fatal Signal in this step.
ConsumesFatal ==
    \/ kind = "ReturnStep" /\ calls' = calls + 1 /\ IsFatalRaise(source'[1])
    \/ kind = "StageStep" /\ pc = "loop" /\ pos' = pos + 1 /\ IsFatalRaise(source[pos + 1])
    \/ /\ kind = "IterStep" /\ pc \in GeneratorStates \ {"done"} /\ pc' = "done"
       /\ source' = source /\ pos' > pos /\ IsFatalRaise(source[pos'])

\* C6: in ReturnStep, StageStep and IterStep a Fatal Signal from the internal
\* logic goes to the fatal handler, never to the generic one: it is logged as
\* an error and raised on unchanged, it adds no failure record, and for
\* StageStep and IterStep the Status then holds exactly the records of the
\* envelopes handled before the signal.
C6_FatalNotRecorded ==
    [][ConsumesFatal =>
          /\ raised' = Some(source'[pos'].exc)
          /\ pc' \in {"raised", "done"}
          /\ status' = status
          /\ log' = Append(log, LogEntry("error", "Fatal error running step",
                                         source'[pos'].exc.msg))
          /\ kind = "ReturnStep" => status' = pre'
          /\ kind \in {"StageStep", "IterStep"} =>
                status' = Recorded(pre', SubSeq(source', 1, pos' - 1))]_vars

\* An IterStep sequence ended by the Fatal Signal after a Failure and a Payload.
C6_Witness ==
    /\ kind = "IterStep" /\ pc = "done"
    /\ pos = 3 /\ IsFatalRaise(source[3])
    /\ raised = Some(source[3].exc)
    /\ Len(emitted) = 2
    /\ status.failureCount = 1 /\ status.successCount = 1

\* C7: whatever the internal primitive does, the only exception that leaves
\* run() of ReturnStep and StageStep, or a pull on IterStep's sequence, is the
\* Fatal Signal the primitive raised.
C7_OnlyFatalEscapes ==
    (kind \in {"ReturnStep", "StageStep", "IterStep"} /\ raised # None) =>
        /\ pos > 0
        /\ IsFatalRaise(source[pos])
        /\ raised = Some(source[pos].exc)

\* A StageStep run that met an unexpected error and returned.
C7_Witness ==
    /\ kind = "StageStep" /\ pc = "returned"
    /\ pos = 2 /\ source[2] = Raise(UnexpectedError("boom"))
    /\ raised = None
    /\ status.failureCount = pre.failureCount + 1

\* The exception a concrete BulkStep.run raises, and the results it books first.
BodyRaise(body) ==
    IF body # <<>> /\ body[Len(body)].type = "Raise" THEN Some(body[Len(body)].exc) ELSE None

BodyResults(body) ==
    IF BodyRaise(body) = None THEN body ELSE SubSeq(body, 1, Len(body) - 1)

\* C8: BulkStep.run has no wrapper: the caller sees the exception raised
\* inside, fatal or not, as it is; it is not turned into a failure record, not
\* swallowed, and nothing is recorded or logged on the step's behalf.
C8_BulkStepNoWrapper ==
    (kind = "BulkStep" /\ calls > 0) =>
        /\ raised = BodyRaise(source)
        /\ pc = IF BodyRaise(source) = None THEN "returned" ELSE "raised"
        /\ status = Recorded(pre, BodyResults(source))
        /\ \A i \in 1..Len(status.failures) : status.failures[i].name # "Unhandled"
        /\ log = <<>>

\* A BulkStep run that booked a failure itself and then raised an unexpected error.
C8_Witness ==
    /\ kind = "BulkStep" /\ pc = "raised"
    /\ raised = Some(UnexpectedError("boom"))
    /\ Len(source) = 2 /\ IsFailure(source[1])
    /\ status.failureCount = pre.failureCount + 1

\* The left sides of a sequence of Eithers, in order.
RECURSIVE Lefts(_)
Lefts(seq) ==
    IF seq = <<>> THEN <<>>
    ELSE (IF Head(seq).left # None THEN <<Head(seq).left[1]>> ELSE <<>>) \o Lefts(Tail(seq))

\* What a sequence of Eithers calls for as emissions, in order.
RECURSIVE Emissions(_)
Emissions(seq) ==
    IF seq = <<>> THEN <<>>
    ELSE (IF Head(seq).left # None THEN <<None>> ELSE <<>>)
         \o (IF Head(seq).right # None THEN <<Head(seq).right>> ELSE <<>>)
         \o Emissions(Tail(seq))

\* The Eithers the wrapper has taken from the source in this invocation.
Taken ==
    IF pos > 0 /\ source[pos].type # "Either" THEN SubSeq(source, 1, pos - 1)
    ELSE SubSeq(source, 1, pos)

\* C9: StageStep and IterStep keep the source order: at every moment the
\* failure records of this invocation are the left sides of the Eithers taken
\* so far, in source order (followed only by the wrapper's own "Unhandled"
\* record once an unexpected error has ended the invocation), and IterStep's
\* emissions are those of the Eithers taken so far, in source order.
C9_SourceOrder ==
    (kind \in {"StageStep", "IterStep"}) =>
        LET n == Len(Lefts(Taken))
            ended == pos > 0 /\ IsUnexpected(source[pos])
        IN  /\ Len(newFailures) = n + (IF ended THEN 1 ELSE 0)
            /\ SubSeq(newFailures, 1, n) = Lefts(Taken)
            /\ ended => newFailures[n + 1].name = "Unhandled"
            /\ status.failureCount = pre.failureCount + Len(newFailures)
            /\ kind = "IterStep" =>
                  emitted = IF pc = "yieldLeft"
                            THEN Emissions(SubSeq(source, 1, pos - 1)) \o <<None>>
                            ELSE Emissions(Taken)

\* Two different Failures and then a Payload pulled from an IterStep sequence.
C9_Witness ==
    /\ kind = "IterStep" /\ pc = "yieldRight"
    /\ pos = 3
    /\ IsFailure(source[1]) /\ IsFailure(source[2]) /\ IsPayload(source[3])
    /\ source[1].left # source[2].left
    /\ newFailures = <<source[1].left[1], source[2].left[1]>>
    /\ emitted = <<None, None, source[3].right>>

\* C10: IterStep.run is lazy: making the sequence changes nothing; after j
\* elements are pulled the Status read through get_status holds the first j
\* source envelopes and no later one; and a consumer that drops the sequence
\* early leaves the rest of the source untaken and unrecorded.
C10_IterStepLazy ==
    /\ [](kind = "IterStep" /\ pc \in GeneratorStates =>
            /\ pc = "created" => get_status = pre /\ pos = 0 /\ emitted = <<>>
            /\ pos <= Len(source)
            /\ AllProper(SubSeq(source, 1, pos)) =>
                  /\ pos = Len(emitted)
                  /\ get_status = Recorded(pre, SubSeq(source, 1, Len(emitted))))
    /\ [][kind = "IterStep" /\ calls' # calls => status' = status /\ log' = log]_vars

\* One element pulled out of three, with the Status read at that point.
C10_Witness ==
    /\ kind = "IterStep" /\ pc = "yieldLeft"
    /\ Len(source) = 3 /\ AllProper(source)
    /\ Len(emitted) = 1
    /\ get_status.failureCount = pre.failureCount + 1
    /\ get_status.successCount = pre.successCount

\* The Status after one "Unhandled" record is added to st.
WithUnhandled(st, after) ==
    /\ after.successCount = st.successCount
    /\ after.failureCount = st.failureCount + 1
    /\ Len(after.failures) = Len(st.failures) + 1
    /\ SubSeq(after.failures, 1, Len(st.failures)) = st.failures
    /\ after.failures[Len(after.failures)].name = "Unhandled"

\* C11: StageStep.run: an unexpected error at position i ends the drain loop
\* for this invocation without leaving run(): what came before i stays
\* recorded, nothing after i is taken or recorded, and exactly one "Unhandled"
\* record is appended; the Fatal Signal at position i ends it at once and
\* leaves run() with the earlier records kept.
C11_StageStepAbort ==
    (kind = "StageStep" /\ pos > 0) =>
        /\ IsUnexpected(source[pos]) =>
              /\ pc = "returned" /\ raised = None /\ ret = None
              /\ WithUnhandled(Recorded(pre, SubSeq(source, 1, pos - 1)), status)
        /\ IsFatalRaise(source[pos]) =>
              /\ pc = "raised" /\ raised = Some(source[pos].exc)
              /\ status = Recorded(pre, SubSeq(source, 1, pos - 1))

\* A drain loop ended by an unexpected error with a Failure behind it and a
\* Failure still ahead.
C11_Witness ==
    /\ kind = "StageStep" /\ pc = "returned"
    /\ Len(source) = 3 /\ pos = 2
    /\ IsFailure(source[1]) /\ source[2] = NotEither /\ IsFailure(source[3])
    /\ Len(newFailures) = 2

\* C12 as stated: after an unexpected error of the wrapper's own on one result
\* (the source still viable) the wrapper records "Unhandled" and goes on to the
\* next source element, so its sequence never ends with results left untaken.
C12_ContinuesAfterError ==
    (/\ kind = "IterStep" /\ pc = "done"
     /\ \E i \in 1..pos : source[i].type = "NotEither") =>
        pos = Len(source)

\* C12, amended: after an unexpected error of the wrapper's own on one result
\* the wrapper records one "Unhandled" record and its sequence ends there: the
\* consumer sees the end of the sequence, no exception, and no later source
\* element is taken, recorded or emitted.
C12_EndsAfterError ==
    (kind = "IterStep") =>
        \A i \in 1..pos :
            source[i].type = "NotEither" =>
                /\ i = pos
                /\ pc = "done" /\ raised = None
                /\ WithUnhandled(Recorded(pre, SubSeq(source, 1, pos - 1)), status)
                /\ emitted = Emissions(SubSeq(source, 1, pos - 1))

\* A sequence ended at a result that is no Either, a Payload pulled before it
\* and a Payload left in the source.
C12_Witness ==
    /\ kind = "IterStep" /\ pc = "done"
    /\ Len(source) = 3 /\ pos = 2
    /\ IsPayload(source[1]) /\ source[2] = NotEither /\ IsPayload(source[3])
    /\ Len(emitted) = 1
    /\ Len(newFailures) = 1

\* C13: IterStep.run: when the source itself raises an unexpected error after
\* i results, the wrapper's sequence ends: the consumer sees the end of the
\* sequence after the emissions of those i results, no exception, and exactly
\* one "Unhandled" record is appended; when the source raises the Fatal Signal
\* the signal leaves the consumer's pull and the sequence is over.
C13_IterStepSourceRaises ==
    /\ [](kind = "IterStep" /\ pos > 0 /\ source[pos].type = "Raise" =>
            /\ pc = "done"
            /\ emitted = Emissions(SubSeq(source, 1, pos - 1))
            /\ ~IsFatal(source[pos].exc) =>
                  /\ raised = None
                  /\ WithUnhandled(Recorded(pre, SubSeq(source, 1, pos - 1)), status)
            /\ IsFatal(source[pos].exc) =>
                  /\ raised \in {None, Some(source[pos].exc)}
                  /\ status = Recorded(pre, SubSeq(source, 1, pos - 1)))
    /\ [][kind = "IterStep" /\ ConsumesFatal =>
            raised' = Some(source[pos'].exc) /\ pc' = "done" /\ emitted' = emitted]_vars

\* A source that raised an unexpected error after a Failure and a Payload.
C13_Witness ==
    /\ kind = "IterStep" /\ pc = "done"
    /\ pos = 3 /\ source[3] = Raise(UnexpectedError("boom"))
    /\ IsFailure(source[1]) /\ IsPayload(source[2])
    /\ emitted = <<None, source[2].right>>
    /\ raised = None
    /\ Len(newFailures) = 2

\* C14: over any run() invocations and pulls, successCount and failureCount
\* never decrease and are never reset, and the failures list only grows at its
\* end: every earlier list is a prefix of every later one.
C14_StatusOnlyGrows ==
    [][/\ status'.successCount >= status.successCount
       /\ status'.failureCount >= status.failureCount
       /\ Len(status'.failures) >= Len(status.failures)
       /\ SubSeq(status'.failures, 1, Len(status.failures)) = status.failures]_vars

\* A second IterStep sequence adding to what the first one recorded.
C14_Witness ==
    /\ kind = "IterStep" /\ calls = 2
    /\ pre.failureCount = 1 /\ pre.successCount = 1
    /\ status.failureCount = 2
    /\ status.failures[1] = pre.failures[1]

\* The wrapper meets an unexpected error in this step: the internal primitive
\* raises one, or hands over an object that is no Either.
ConsumesUnexpected ==
    \/ kind = "ReturnStep" /\ calls' = calls + 1 /\ IsUnexpected(source'[1])
    \/ kind = "StageStep" /\ pc = "loop" /\ pos' = pos + 1 /\ IsUnexpected(source[pos + 1])
    \/ /\ kind = "IterStep" /\ pc \in GeneratorStates \ {"done"} /\ pc' = "done"
       /\ source' = source /\ pos' > pos /\ IsUnexpected(source[pos'])

\* What one step of a wrapper gives the logger: one error entry for a Fatal
\* Signal, one warning entry (and the "Unhandled" record) for an unexpected
\* error, nothing otherwise.
LogsAsItShould ==
    /\ ConsumesFatal =>
          /\ Len(log') = Len(log) + 1
          /\ SubSeq(log', 1, Len(log)) = log
          /\ log'[Len(log')].level = "error"
          /\ log'[Len(log')].msg[2] = source'[pos'].exc.msg
          /\ raised' = Some(source'[pos'].exc)
    /\ ConsumesUnexpected =>
          /\ Len(log') = Len(log) + 1
          /\ SubSeq(log', 1, Len(log)) = log
          /\ log'[Len(log')].level = "warning"
          /\ WithUnhandled(status, status')
    /\ ~(ConsumesFatal \/ ConsumesUnexpected) => log' = log

C16_ReturnStepSides ==
    (kind = "ReturnStep" /\ calls > 0) =>
        /\ (status.successCount - pre.successCount)
             + (status.failureCount - pre.failureCount) <= 1
        /\ Len(status.failures) = Len(pre.failures) + (status.failureCount - pre.failureCount)
        /\ unit.type = "Either" =>
              /\ raised = None /\ pc = "returned"
              /\ ret # None <=> (unit.left = None /\ unit.right # None)
              /\ status.successCount = pre.successCount + 1
                    <=> (unit.left = None /\ unit.right # None)
              /\ ret # None => ret = unit.right
              /\ unit.left # None =>
                    /\ ret = None
                    /\ status = [pre EXCEPT !.failureCount = @ + 1,
                                            !.failures = Append(@, unit.left[1])]
              /\ (unit.left = None /\ unit.right = None) =>
                    ret = None /\ status = pre

\* An Either with both sides set handed to ReturnStep.run.
C16_Witness ==
    /\ kind = "ReturnStep" /\ calls = 1
    /\ unit.type = "Either" /\ unit.left # None /\ unit.right # None
    /\ ret = None
    /\ status.failureCount = 1 /\ status.successCount = 0

\* The places of a sequence of Eithers where the left, the right, both or
\* neither side is set.
WithLeft(seq) == { i \in 1..Len(seq) : seq[i].left # None }

WithRight(seq) == { i \in 1..Len(seq) : seq[i].right # None }

WithBoth(seq) == WithLeft(seq) \cap WithRight(seq)

WithNeither(seq) == (1..Len(seq)) \ (WithLeft(seq) \cup WithRight(seq))

AllEithers(seq) == \A i \in 1..Len(seq) : seq[i].type = "Either"

\* StageStep.run is over, nothing was raised: each side was counted on its own.
StageStepSidesCounted ==
    /\ pos = Len(source)
    /\ status.failureCount = pre.failureCount + Cardinality(WithLeft(source))
    /\ Len(status.failures) = Len(pre.failures) + Cardinality(WithLeft(source))
    /\ status.successCount = pre.successCount + Cardinality(WithRight(source))

\* successCount + failureCount grew by the number n of envelopes.
GrewByN ==
    (status.successCount - pre.successCount) + (status.failureCount - pre.failureCount)
        = Len(source)

\* C17 as stated: StageStep.run counts the two sides of each envelope on their
\* own, and successCount + failureCount grows by n only when every envelope
\* carries exactly one side.
C17_GrowsByNOnlyIfOneSided ==
    (kind = "StageStep" /\ pc = "returned" /\ AllEithers(source)) =>
        /\ StageStepSidesCounted
        /\ GrewByN => AllProper(source)

\* C17, amended: StageStep.run counts the two sides of each envelope on their
\* own (both sides: one failure and one success; neither: nothing), and
\* successCount + failureCount grows by n exactly when as many envelopes carry
\* both sides as carry neither, as when every envelope carries exactly one.
C17_StageStepSides ==
    (kind = "StageStep" /\ pc = "returned" /\ AllEithers(source)) =>
        /\ StageStepSidesCounted
        /\ GrewByN <=> Cardinality(WithBoth(source)) = Cardinality(WithNeither(source))
        /\ AllProper(source) => GrewByN

\* A run over an envelope with both sides and one with neither: two records
\* for two envelopes.
C17_Witness ==
    /\ kind = "StageStep" /\ pc = "returned"
    /\ Len(source) = 2 /\ AllEithers(source)
    /\ WithBoth(source) = {1} /\ WithNeither(source) = {2}
    /\ status.failureCount = pre.failureCount + 1
    /\ status.successCount = pre.successCount + 1

\* The "Unhandled" records among those added in this invocation.
UnhandledAdded == { i \in 1..Len(newFailures) : newFailures[i].name = "Unhandled" }

\* C18: whenever the consumer of IterStep.run holds control, the number of
\* elements emitted so far is successCount growth + failureCount growth - the
\* number of "Unhandled" records appended, whatever the envelopes (both sides:
\* two elements, placeholder then payload, and two records; neither: none);
\* the "Unhandled" record is the only one added without an emission.
C18_EmissionsMatchRecords ==
    (kind = "IterStep" /\ pc \in GeneratorStates) =>
        /\ Len(emitted) = (status.successCount - pre.successCount)
                            + (status.failureCount - pre.failureCount)
                            - Cardinality(UnhandledAdded)
        /\ Cardinality(UnhandledAdded) = IF pos > 0 /\ IsUnexpected(source[pos]) THEN 1 ELSE 0
        /\ UnhandledAdded \subseteq {Len(newFailures)}
        /\ pc # "yieldLeft" =>
              Len(emitted) = Cardinality(WithLeft(Taken)) + Cardinality(WithRight(Taken))
        /\ \A i \in 1..Len(Taken) :
              (i \in WithBoth(Taken) /\ (i < pos \/ pc # "yieldLeft")) =>
                  \E j \in 1..(Len(emitted) - 1) :
                      emitted[j] = None /\ emitted[j + 1] = Taken[i].right

\* An envelope with both sides pulled in two elements, then a result that is no
\* Either: two emissions, three records.
C18_Witness ==
    /\ kind = "IterStep" /\ pc = "done"
    /\ pos = 2 /\ source[2] = NotEither
    /\ WithBoth(Taken) = {1}
    /\ emitted = <<None, source[1].right>>
    /\ status.failureCount = pre.failureCount + 2
    /\ status.successCount = pre.successCount + 1

\* A pull on the current IterStep sequence (no new run() call in this step).
SameSequence == kind = "IterStep" /\ pc \in GeneratorStates /\ calls' = calls

\* A pull on a sequence that has not ended either ends it or emits one more
\* element, and never goes back in the source.
PullAdvances ==
    (SameSequence /\ pc # "done") =>
        /\ pc' = "done" \/ Len(emitted') = Len(emitted) + 1
        /\ pos' >= pos /\ source' = source

\* A pull on a sequence that has ended emits nothing, takes nothing from the
\* source, raises no Fatal Signal and leaves the Status and the log alone.
PullOnEndedIsIdle ==
    (SameSequence /\ pc = "done") =>
        /\ pc' = "done"
        /\ emitted' = emitted
        /\ pos' = pos /\ source' = source
        /\ raised' = None
        /\ status' = status /\ log' = log

\* C19: an IterStep.run sequence is single-pass and ends after finitely many
\* pulls for every finite source (at most two elements per source result, one
\* more pull to end); once ended, by exhaustion, "Unhandled" or the Fatal
\* Signal, every further pull emits nothing, does not call or resume _iter,
\* raises no Fatal Signal again and leaves the Status unchanged.
C19_SinglePass ==
    /\ [](kind = "IterStep" => Len(emitted) <= 2 * pos /\ pos <= Len(source))
    /\ [][PullAdvances /\ PullOnEndedIsIdle]_vars

\* A sequence ended by the Fatal Signal and pulled once more: nothing is raised
\* this time and the Status is as the signal left it.
C19_Witness ==
    /\ kind = "IterStep" /\ pc = "done"
    /\ pos = 2 /\ IsFatalRaise(source[2]) /\ IsFailure(source[1])
    /\ raised = None
    /\ emitted = <<None>>
    /\ Len(newFailures) = 1
    /\ Len(log) = 1

====
